---------------------------- MODULE Spec2Model ----------------------------
(***************************************************************************)
(* A model of cpp_log's RotatingFileSink (src/src/cpp_log/sink.hpp) and of *)
(* the Logger that drives it (log.hpp).  The sink's own fields are the     *)
(* record `sink`, the directory holding the log file is `fs`, the system   *)
(* clock is `clock`.  Every method of the sink is an operator that yields  *)
(* the set of outcomes the call can have; the actions apply them.          *)
(*                                                                         *)
(* Specifications:                                                         *)
(*   Spec        one caller writes to a rotating sink of any strategy      *)
(*   SpecLog     threads log through one Logger that holds the sink        *)
(*   SpecRace    threads write to the sink with no mutex in common         *)
(*   SpecColour  a size-based sink with the formatter of its constructor   *)
(*   SpecSize    a size-based sink on an empty file, its writes tallied    *)
(*   SpecLogger  a Logger with several sinks, all its methods              *)
(*   SpecLevel   threads log while another thread calls set_level          *)
(*   SpecDefault threads call the global functions for the first time      *)
(*   SpecAsync   an AsyncLogSink: producers and the strand's handlers      *)
(*   SpecAsyncFair  SpecAsync with the strand's handlers run fairly        *)
(*   SpecFormat  PatternFormatter::format on patterns and messages         *)
(*   SpecCleanup cleanup_old_files, step by step, for every max_files      *)
(*   SpecStrand  an AsyncLogSink whose io_context is run by several threads*)
(*   SpecDestroy an AsyncLogSink destroyed while its handlers are posted   *)
(***************************************************************************)
EXTENDS Integers, Sequences, FiniteSets, TLC

(***************************************************************************)
(* Bounds of the model.                                                    *)
(***************************************************************************)
TicksPerHour == 2      \* clock ticks in one hour (the calendar, scaled down)
HoursPerDay  == 2      \* hours in one day (the calendar, scaled down)
MaxClock     == 7      \* the clock stops advancing here
MaxLimit     == 3      \* largest max_size a sink is constructed with
MaxMsgLen    == 3      \* longest message text (the formatted line adds the newline)
MaxWrites    == 3      \* write calls issued to the sink
MaxFaults    == 1      \* I/O failures the environment injects
MaxFiles     == 2      \* largest max_files a sink is constructed with
MaxOthers    == 1      \* files sharing the stem that exist before construction
MaxIODelay   == 1      \* ticks that may pass while rotate_files runs
NThreads     == 2      \* threads that log through the one Logger
CallsPerThread == 2    \* log calls each of these threads issues
MaxSizeWrites == 4     \* write calls issued where the bytes written are tallied
MaxSinks == 3          \* sink objects a Logger is given
MaxLoggerCalls == 4    \* calls made on the Logger that has several sinks
MaxPatternLen == 4     \* longest pattern given to a PatternFormatter
MaxTextLen == 2        \* longest message text formatted character by character
MaxAsyncWrites == 4    \* write calls issued to the asynchronous sink
MaxMtime == 2          \* latest last-write time of a file cleanup_old_files finds
MaxExtraTurns == 2     \* turns of the deletion loop followed on an empty vector

TicksPerDay == HoursPerDay * TicksPerHour

(***************************************************************************)
(* level.hpp: enum class Level, in declaration order.                      *)
(***************************************************************************)
Debug   == 0
Info    == 1
Warning == 2
Error   == 3
Fatal   == 4
Level   == {Debug, Info, Warning, Error, Fatal}

\* enum class RotationStrategy
RotationStrategy == {"Size", "Daily", "Hourly"}

(***************************************************************************)
(* File names.  base_filename_ is Base; a rotated name is base_filename_   *)
(* followed by "." and a suffix; OtherFile(k) is a file of the same        *)
(* directory whose name begins with the stem of base_filename_ and that no *)
(* rotation produced; Unrelated is a file whose name does not begin with   *)
(* the stem.                                                               *)
(***************************************************************************)
Base         == [kind |-> "base", suffix |-> <<>>]
OtherFile(k) == [kind |-> "other", suffix |-> <<k>>]
Unrelated    == [kind |-> "unrelated", suffix |-> <<>>]

\* filename.find(base_stem) == 0
starts_with_stem(name) == name.kind \in {"base", "num", "ts", "other"}

\* the bytes one `file_ << formatted` put into a file: their number, and how
\* many of them belong to ANSI colour sequences
Chunk(n, a) == [size |-> n, ansi |-> a, src |-> "write"]

\* bytes a file held before the sink was constructed
OldBytes(n) == [size |-> n, ansi |-> 0, src |-> "old"]

RECURSIVE SumSizes(_)
SumSizes(content) ==
    IF content = <<>> THEN 0
    ELSE Head(content).size + SumSizes(Tail(content))

\* std::filesystem::file_size of an existing file
file_size(f, name) == SumSizes(f[name].content)

\* std::filesystem::exists
exists(f, name) == name \in DOMAIN f

\* std::filesystem::rename: the file moves, an existing target is replaced
rename(f, from, to) ==
    [n \in (DOMAIN f \ {from}) \cup {to} |-> IF n = to THEN f[from] ELSE f[n]]

\* std::filesystem::remove of a set of files
remove(f, names) == [n \in DOMAIN f \ names |-> f[n]]

\* creating (or truncating) a file at instant t
Truncated(f, name, t) ==
    [n \in DOMAIN f \cup {name} |->
        IF n = name THEN [content |-> <<>>, mtime |-> t] ELSE f[n]]

(***************************************************************************)
(* The C library's calendar: localtime splits an instant into fields,      *)
(* mktime normalises fields (an hour or a day past its range carries) back *)
(* into an instant.                                                        *)
(***************************************************************************)
localtime(t) ==
    [tm_mday |-> t \div TicksPerDay,
     tm_hour |-> (t % TicksPerDay) \div TicksPerHour,
     tm_min  |-> t % TicksPerHour]

mktime(tm) == tm.tm_mday * TicksPerDay + tm.tm_hour * TicksPerHour + tm.tm_min

(***************************************************************************)
(* LogSink::should_log                                                     *)
(***************************************************************************)
\* faulty variant: the comparison is the other way round
should_log_below(level_, msg_level) == msg_level <= level_

should_log(level_, msg_level) == msg_level >= level_

(***************************************************************************)
(* formatter_->format(context).  PatternFormatter("%m") renders the        *)
(* message text and appends '\n'.  DefaultFormatter wraps the fields of    *)
(* the line in colour escape sequences (color::cyan ... color::reset) and  *)
(* appends "\n"; ColourBytes stands for the bytes of those sequences, the  *)
(* fixed-width fields (time, level, location, thread) are left out.        *)
(***************************************************************************)
ColourBytes == 2

DefaultFormatter_format(context) ==
    Chunk(context.len + 1 + ColourBytes, ColourBytes)

PatternFormatter_format(context) == Chunk(context.len + 1, 0)

format(formatter_, context) ==
    IF formatter_ = "DefaultFormatter" THEN DefaultFormatter_format(context)
    ELSE PatternFormatter_format(context)

\* LogSink::set_formatter
set_formatter(s, formatter) == [s EXCEPT !.formatter_ = formatter]

\* color::strip_color_codes: the escape sequences are removed
strip_color_codes(str) == [str EXCEPT !.size = @ - str.ansi, !.ansi = 0]

(***************************************************************************)
(* std::ofstream file_: is_open and the error state of the stream.         *)
(***************************************************************************)
stream_close(file_) ==
    IF file_.is_open THEN [file_ EXCEPT !.is_open = FALSE]
    ELSE [file_ EXCEPT !.fail = TRUE]

stream_open_ok     == [is_open |-> TRUE, fail |-> FALSE]
stream_open_failed == [is_open |-> FALSE, fail |-> TRUE]

stream_good(file_) == file_.is_open /\ ~file_.fail

(***************************************************************************)
(* RotatingFileSink::calculate_next_rotation_time                          *)
(***************************************************************************)
\* faulty variant: tm_min is not reset
calculate_keeps_minutes(strategy_, now) ==
    LET tm_now == localtime(now)
        tm_next == IF strategy_ = "Daily"
                     THEN [tm_now EXCEPT !.tm_hour = 0, !.tm_mday = @ + 1]
                   ELSE IF strategy_ = "Hourly"
                     THEN [tm_now EXCEPT !.tm_hour = @ + 1]
                   ELSE tm_now
    IN  mktime(tm_next)

\* faulty variant: the Daily branch does not reset tm_hour
calculate_keeps_hour(strategy_, now) ==
    LET tm_now == [localtime(now) EXCEPT !.tm_min = 0]
        tm_next == IF strategy_ = "Daily"
                     THEN [tm_now EXCEPT !.tm_mday = @ + 1]
                   ELSE IF strategy_ = "Hourly"
                     THEN [tm_now EXCEPT !.tm_hour = @ + 1]
                   ELSE tm_now
    IN  mktime(tm_next)

calculate_next_rotation_time(strategy_, now) ==
    LET tm_now == [localtime(now) EXCEPT !.tm_min = 0]
        tm_next == IF strategy_ = "Daily"
                     THEN [tm_now EXCEPT !.tm_hour = 0, !.tm_mday = @ + 1]
                   ELSE IF strategy_ = "Hourly"
                     THEN [tm_now EXCEPT !.tm_hour = @ + 1]
                   ELSE tm_now
    IN  mktime(tm_next)

(***************************************************************************)
(* RotatingFileSink::generate_rotated_filename                             *)
(***************************************************************************)
generate_rotated_filename(strategy_, now) ==
    IF strategy_ = "Size"
      THEN [kind |-> "num", suffix |-> <<1>>]
      ELSE LET tm_now == localtime(now)
           IN  [kind |-> "ts",
                suffix |-> <<tm_now.tm_mday, tm_now.tm_hour, tm_now.tm_min>>]

(***************************************************************************)
(* RotatingFileSink::cleanup_old_files: the directories it can leave.      *)
(* Every regular file whose name starts with the stem and is not the base  *)
(* file is a candidate; the candidates are sorted by last_write_time, most *)
(* recent first, and removed from the back while size() >= max_files_.     *)
(* std::sort leaves the order of equal times open, hence a set.            *)
(***************************************************************************)
\* faulty variant: the prefix test is inverted
log_files_not_prefixed(f) == { n \in DOMAIN f : ~starts_with_stem(n) /\ n # Base }

log_files(f) == { n \in DOMAIN f : starts_with_stem(n) /\ n # Base }

\* faulty variant: the candidates are sorted oldest first
sort_oldest_first(f, cand) ==
    { order \in [1..Cardinality(cand) -> cand] :
        /\ \A i, j \in DOMAIN order : i # j => order[i] # order[j]
        /\ \A i, j \in DOMAIN order :
              i < j => f[order[i]].mtime <= f[order[j]].mtime }

\* std::sort with the comparator last_write_time(a) > last_write_time(b): the
\* orders it can leave the candidates in
sort_by_last_write_time(f, cand) ==
    { order \in [1..Cardinality(cand) -> cand] :
        /\ \A i, j \in DOMAIN order : i # j => order[i] # order[j]
        /\ \A i, j \in DOMAIN order :
              i < j => f[order[i]].mtime >= f[order[j]].mtime }

\* the condition of the deletion loop
loop_condition(files, max_files_) == Len(files) >= max_files_

\* the body of the deletion loop: remove(log_files.back()); pop_back()
loop_body(f, files) ==
    [fs    |-> remove(f, {files[Len(files)]}),
     files |-> SubSeq(files, 1, Len(files) - 1)]

\* the deletion loop, run to its end.  With max_files_ = 0 the condition still
\* holds when the vector is empty and back() is then undefined: that case is
\* followed step by step by SpecCleanup, and the loop is cut there here.
RECURSIVE deletion_loop(_, _, _)
deletion_loop(f, files, max_files_) ==
    IF loop_condition(files, max_files_) /\ files # <<>>
      THEN LET b == loop_body(f, files)
           IN  deletion_loop(b.fs, b.files, max_files_)
      ELSE f

cleanup_old_files(f, max_files_) ==
    { deletion_loop(f, order, max_files_) :
        order \in sort_by_last_write_time(f, log_files(f)) }

(***************************************************************************)
(* RotatingFileSink::rotate_files, entered at instant `now` and reaching   *)
(* file_.open at instant `done`.  `fault` is what the file system refuses  *)
(* during this call: "rename" makes std::filesystem::rename throw, "open"  *)
(* leaves file_ closed after file_.open, so that the function throws       *)
(* std::runtime_error.  The outcomes are [sink, fs, thrown].               *)
(***************************************************************************)
rotate_files(s, f, now, done, fault) ==
    LET closed       == [s EXCEPT !.file_ = stream_close(s.file_)]
        rotated_name == generate_rotated_filename(s.strategy_, now)
    IN  IF exists(f, Base) /\ fault = "rename"
          THEN { [sink |-> closed, fs |-> f, thrown |-> TRUE] }
          ELSE LET renamed == IF exists(f, Base) THEN rename(f, Base, rotated_name)
                              ELSE f
               IN  { IF fault = "open"
                       THEN [sink   |-> [closed EXCEPT !.file_ = stream_open_failed],
                             fs     |-> kept,
                             thrown |-> TRUE]
                       ELSE [sink   |-> [closed EXCEPT !.file_ = stream_open_ok],
                             fs     |-> Truncated(kept, Base, done),
                             thrown |-> FALSE]
                     : kept \in cleanup_old_files(renamed, s.max_files_) }

(***************************************************************************)
(* The tail of RotatingFileSink::write: file_ << formatted;                *)
(* current_size_ += msg_size.  A stream that is closed or in an error      *)
(* state takes no bytes and reports nothing to the caller.                 *)
(***************************************************************************)
append(s, f, formatted, t) ==
    [sink |-> [s EXCEPT !.current_size_ = @ + formatted.size,
                        !.file_ = IF stream_good(s.file_) THEN @
                                  ELSE [@ EXCEPT !.fail = TRUE]],
     fs   |-> IF stream_good(s.file_) /\ exists(f, Base)
                THEN [f EXCEPT ![Base] =
                        [content |-> Append(@.content, formatted), mtime |-> t]]
                ELSE f]

(***************************************************************************)
(* The rotation decision of RotatingFileSink::write.                       *)
(***************************************************************************)
\* faulty variant: the size test is >= instead of >
should_rotate_at_limit(s, msg_size, now) ==
    IF s.strategy_ = "Size"
      THEN s.current_size_ + msg_size >= s.max_size_
      ELSE now >= s.next_rotation_time_

\* faulty variant: the size test ignores the pending message ("has exceeded")
should_rotate_has_exceeded(s, msg_size, now) ==
    IF s.strategy_ = "Size"
      THEN s.current_size_ > s.max_size_
      ELSE now >= s.next_rotation_time_

\* faulty variant: a Daily or Hourly sink also rotates on the size
should_rotate_any_trigger(s, msg_size, now) ==
    \/ s.current_size_ + msg_size > s.max_size_
    \/ s.strategy_ # "Size" /\ now >= s.next_rotation_time_

should_rotate(s, msg_size, now) ==
    IF s.strategy_ = "Size"
      THEN s.current_size_ + msg_size > s.max_size_
      ELSE now >= s.next_rotation_time_

(***************************************************************************)
(* What RotatingFileSink::write does when rotate_files has returned:       *)
(* current_size_ = 0, and calculate_next_rotation_time() unless the        *)
(* strategy is Size.                                                       *)
(***************************************************************************)
\* faulty variant: current_size_ is not reset
after_rotation_keeps_size(s, now) ==
    [s EXCEPT !.next_rotation_time_ =
                  IF s.strategy_ # "Size"
                    THEN calculate_next_rotation_time(s.strategy_, now)
                    ELSE @]

after_rotation(s, now) ==
    [s EXCEPT !.current_size_ = 0,
              !.next_rotation_time_ =
                  IF s.strategy_ # "Size"
                    THEN calculate_next_rotation_time(s.strategy_, now)
                    ELSE @]

(***************************************************************************)
(* RotatingFileSink::write(context), called at instant `now`; when it      *)
(* rotates, `delay` ticks pass inside rotate_files.  The outcomes are      *)
(* [sink, fs, clock, status, rotate]: status is "filtered" (returned at    *)
(* the level check), "ok" (returned after the append) or "threw".          *)
(***************************************************************************)
write(s, f, context, now, delay, fault) ==
    IF ~should_log(s.level_, context.level)
      THEN { [sink |-> s, fs |-> f, clock |-> now,
              status |-> "filtered", rotate |-> FALSE] }
      ELSE
        LET formatted == format(s.formatter_, context)
            msg_size  == formatted.size
        IN  IF should_rotate(s, msg_size, now)
              THEN { IF r.thrown
                       THEN [sink |-> r.sink, fs |-> r.fs, clock |-> now + delay,
                             status |-> "threw", rotate |-> TRUE]
                       ELSE LET reset == after_rotation(r.sink, now + delay)
                                a == append(reset, r.fs, formatted, now + delay)
                            IN  [sink |-> a.sink, fs |-> a.fs, clock |-> now + delay,
                                 status |-> "ok", rotate |-> TRUE]
                     : r \in rotate_files(s, f, now, now + delay, fault) }
              ELSE LET a == append(s, f, formatted, now)
                   IN  { [sink |-> a.sink, fs |-> a.fs, clock |-> now,
                          status |-> "ok", rotate |-> FALSE] }

(***************************************************************************)
(* The constructors.  FileSink(filename) opens the file for appending,     *)
(* which creates it when it is missing, and installs a DefaultFormatter;   *)
(* current_size_ is the size found.                                        *)
(***************************************************************************)
FileSink(f, now) ==
    IF exists(f, Base) THEN f ELSE Truncated(f, Base, now)

RotatingFileSinkBySize(f, max_size, max_files, now) ==
    [level_              |-> Debug,
     formatter_          |-> "DefaultFormatter",
     file_               |-> stream_open_ok,
     max_size_           |-> max_size,
     max_files_          |-> max_files,
     current_size_       |-> file_size(FileSink(f, now), Base),
     strategy_           |-> "Size",
     next_rotation_time_ |-> now]

RotatingFileSinkByTime(f, strategy, max_files, now) ==
    [level_              |-> Debug,
     formatter_          |-> "DefaultFormatter",
     file_               |-> stream_open_ok,
     max_size_           |-> 0,
     max_files_          |-> max_files,
     current_size_       |-> file_size(FileSink(f, now), Base),
     strategy_           |-> strategy,
     next_rotation_time_ |-> calculate_next_rotation_time(strategy, now)]

(***************************************************************************)
(* State.                                                                  *)
(*   sink      the fields of the RotatingFileSink (formatter_ is the class *)
(*             of the formatter installed)                                 *)
(*   fs        the directory of the log file: name -> [content, mtime]     *)
(*   clock     std::chrono::system_clock::now()                            *)
(*   last      the latest call of write: how it ended, the size of the     *)
(*             formatted message and of the colour sequences in it,        *)
(*             whether it called rotate_files                              *)
(*   writes, faults, rotations                                             *)
(*             calls of write, injected failures, rotate_files calls that  *)
(*             returned                                                    *)
(*   mutex_    Logger::mutex_: 0 when free, else the thread that holds it  *)
(*   pc        where each thread stands inside Logger::log                 *)
(*   calls     the log calls of each thread that have returned             *)
(*   local     the locals of the write each thread is running              *)
(*   sent      the sizes of the formatted messages that passed the sink's  *)
(*             level filter, in the order of the calls                     *)
(*   logger    a Logger with several sinks: its fields and its latest call *)
(*   async     an AsyncLogSink: its strand, its queue and its output       *)
(*   fmt       a PatternFormatter, a context and the line formatted        *)
(*   cleanup   a call of cleanup_old_files followed step by step: its      *)
(*             vector log_files and where the call stands                  *)
(***************************************************************************)
VARIABLES sink, fs, clock, last, writes, faults, rotations,
          mutex_, pc, calls, local,
          sent, logger, async, fmt, cleanup

vars == <<sink, fs, clock, last, writes, faults, rotations,
          mutex_, pc, calls, local,
          sent, logger, async, fmt, cleanup>>

callvars == <<last, writes, faults>>
logvars  == <<mutex_, pc, calls, local>>
extvars  == <<sent, logger, async, fmt, cleanup>>

Threads == 1..NThreads

NoLocals == [formatted |-> Chunk(0, 0), should_rotate |-> FALSE]

LoggerIdle ==
    /\ mutex_ = 0
    /\ pc = [t \in Threads |-> "idle"]
    /\ calls = [t \in Threads |-> 0]
    /\ local = [t \in Threads |-> NoLocals]

\* the objects a specification does not exercise stay as constructed
NoLogger == [sinks_ |-> <<>>, min_level_ |-> Debug]
NoAsync  == [message_queue_ |-> <<>>]
NoFormat == [pattern_ |-> <<>>]
NoCleanup == [log_files |-> <<>>, collected |-> 0, removed |-> <<>>, turns |-> 0,
              at |-> "idle"]

OthersIdle ==
    /\ sent = <<>>
    /\ logger = NoLogger
    /\ async = NoAsync
    /\ fmt = NoFormat
    /\ cleanup = NoCleanup

\* what the directory may hold before the sink is constructed
OldFile(n) == [content |-> <<OldBytes(n)>>, mtime |-> 0]

Directories ==
    { [n \in {OtherFile(k) : k \in 1..j} \cup b \cup {Unrelated} |->
          IF n = Base THEN OldFile(MaxLimit + 1) ELSE OldFile(1)]
      : j \in 0..MaxOthers, b \in {{}, {Base}} }

\* a directory in which no file begins with the stem
Directories0 == [n \in {Unrelated} |-> OldFile(1)]

ConstructionTimes == 0..1
Faults == {"none", "rename", "open"}
MsgLens == {0, 1, MaxMsgLen}
Messages == [level : {Info, Error}, len : MsgLens]

NoCall == [status |-> "none", size |-> 0, ansi |-> 0, rotate |-> FALSE]

Init ==
    \E f \in Directories, now \in ConstructionTimes, max_files \in 1..MaxFiles :
        /\ \/ \E max_size \in (MaxLimit - 1)..MaxLimit :
                sink = set_formatter(
                           RotatingFileSinkBySize(f, max_size, max_files, now),
                           "PatternFormatter")
           \/ \E strategy \in {"Daily", "Hourly"} :
                sink = set_formatter(
                           RotatingFileSinkByTime(f, strategy, max_files, now),
                           "PatternFormatter")
        /\ fs = FileSink(f, now)
        /\ clock = now
        /\ last = NoCall
        /\ writes = 0
        /\ faults = 0
        /\ rotations = 0
        /\ LoggerIdle
        /\ OthersIdle

ActiveContent(f) == IF exists(f, Base) THEN f[Base].content ELSE <<>>

(***************************************************************************)
(* A caller invokes write on the sink.                                     *)
(***************************************************************************)
WriteCall(context, delay, fault) ==
      \E o \in write(sink, fs, context, clock, delay, fault) :
        /\ o.clock <= MaxClock
        /\ fault # "none" => o.status = "threw" /\ faults < MaxFaults
        /\ delay > 0 => o.rotate
        /\ sink' = o.sink
        /\ fs' = o.fs
        /\ clock' = o.clock
        /\ last' = [status |-> o.status,
                    size   |-> format(sink.formatter_, context).size,
                    ansi   |-> format(sink.formatter_, context).ansi,
                    rotate |-> o.rotate]
        /\ writes' = writes + 1
        /\ faults' = IF o.status = "threw" THEN faults + 1 ELSE faults
        /\ rotations' = IF o.rotate /\ o.status = "ok" THEN rotations + 1
                        ELSE rotations
        /\ UNCHANGED logvars

Write ==
    \E context \in Messages, delay \in 0..MaxIODelay, fault \in Faults :
        /\ writes < MaxWrites
        /\ WriteCall(context, delay, fault)
        /\ UNCHANGED extvars

(***************************************************************************)
(* LogSink::set_level                                                      *)
(***************************************************************************)
set_level(s, level) == [s EXCEPT !.level_ = level]

SetLevel ==
    \E level \in {Debug, Warning} :
        /\ level # sink.level_
        /\ sink' = set_level(sink, level)
        /\ UNCHANGED <<fs, clock, last, writes, faults, rotations>>
        /\ UNCHANGED logvars
        /\ UNCHANGED extvars

(***************************************************************************)
(* Time passes.                                                            *)
(***************************************************************************)
Tick ==
    /\ clock < MaxClock
    /\ clock' = clock + 1
    /\ UNCHANGED <<sink, fs, last, writes, faults, rotations>>
    /\ UNCHANGED logvars
    /\ UNCHANGED extvars

Next == Write \/ SetLevel \/ Tick

Spec == Init /\ [][Next]_vars

(***************************************************************************)
(* Logger::log in synchronous mode: NThreads threads log through one       *)
(* Logger whose sinks_ holds the one rotating sink.  A thread passes       *)
(* should_log (which takes and releases mutex_), builds the context,       *)
(* takes mutex_ for the fan-out, runs sink->write and sink->flush, and     *)
(* releases mutex_ when the lock_guard goes out of scope.  The steps of    *)
(* write are separate actions, so that what the mutex excludes is visible. *)
(***************************************************************************)
DefaultMaxFiles == 5
LogMessage == [level |-> Info, len |-> 1]
min_level_ == Debug

\* faulty variant: the fan-out does not wait for the mutex
lock_never_waits(m) == TRUE

\* std::lock_guard<std::mutex> lock(mutex_) can proceed
lock_acquirable(m) == m = 0

InitLog ==
    /\ \/ \E max_size \in (MaxLimit - 1)..MaxLimit :
             sink = set_formatter(
                        RotatingFileSinkBySize(Directories0, max_size,
                                               DefaultMaxFiles, 0),
                        "PatternFormatter")
       \/ \E strategy \in {"Daily", "Hourly"} :
             sink = set_formatter(
                        RotatingFileSinkByTime(Directories0, strategy,
                                               DefaultMaxFiles, 0),
                        "PatternFormatter")
    /\ fs = FileSink(Directories0, 0)
    /\ clock = 0
    /\ last = NoCall
    /\ writes = 0
    /\ faults = 0
    /\ rotations = 0
    /\ LoggerIdle
    /\ OthersIdle

\* if (!should_log(level)) return;  then the context is built
LogEnter(t) ==
    /\ pc[t] = "idle"
    /\ calls[t] < CallsPerThread
    /\ lock_acquirable(mutex_)
    /\ IF should_log(min_level_, LogMessage.level)
         THEN pc' = [pc EXCEPT ![t] = "lock"] /\ UNCHANGED calls
         ELSE calls' = [calls EXCEPT ![t] = @ + 1] /\ UNCHANGED pc
    /\ UNCHANGED <<sink, fs, clock, rotations, mutex_, local>>
    /\ UNCHANGED callvars
    /\ UNCHANGED extvars

\* std::lock_guard<std::mutex> lock(mutex_);
LogLock(t) ==
    /\ pc[t] = "lock"
    /\ lock_acquirable(mutex_)
    /\ mutex_' = t
    /\ pc' = [pc EXCEPT ![t] = "write"]
    /\ UNCHANGED <<sink, fs, clock, rotations, calls, local>>
    /\ UNCHANGED callvars
    /\ UNCHANGED extvars

\* sink->write(context), up to the rotation decision
SinkDecide(t) ==
    /\ pc[t] = "write"
    /\ IF ~should_log(sink.level_, LogMessage.level)
         THEN pc' = [pc EXCEPT ![t] = "flush"] /\ UNCHANGED local
         ELSE LET formatted == format(sink.formatter_, LogMessage)
                  rotate    == should_rotate(sink, formatted.size, clock)
              IN  /\ local' = [local EXCEPT ![t] =
                        [formatted |-> formatted, should_rotate |-> rotate]]
                  /\ pc' = [pc EXCEPT ![t] = IF rotate THEN "rotate" ELSE "append"]
    /\ UNCHANGED <<sink, fs, clock, rotations, mutex_, calls>>
    /\ UNCHANGED callvars
    /\ UNCHANGED extvars

\* rotate_files(); current_size_ = 0; calculate_next_rotation_time();
SinkRotate(t) ==
    /\ pc[t] = "rotate"
    /\ \E r \in rotate_files(sink, fs, clock, clock, "none") :
          /\ sink' = after_rotation(r.sink, clock)
          /\ fs' = r.fs
    /\ rotations' = rotations + 1
    /\ pc' = [pc EXCEPT ![t] = "append"]
    /\ UNCHANGED <<clock, mutex_, calls, local>>
    /\ UNCHANGED callvars
    /\ UNCHANGED extvars

\* file_ << formatted; current_size_ += msg_size;
SinkAppend(t) ==
    /\ pc[t] = "append"
    /\ LET a == append(sink, fs, local[t].formatted, clock)
       IN  sink' = a.sink /\ fs' = a.fs
    /\ pc' = [pc EXCEPT ![t] = "flush"]
    /\ UNCHANGED <<clock, rotations, mutex_, calls, local>>
    /\ UNCHANGED callvars
    /\ UNCHANGED extvars

\* sink->flush(); the loop over sinks_ ends and the lock_guard releases
LogUnlock(t) ==
    /\ pc[t] = "flush"
    /\ mutex_' = IF mutex_ = t THEN 0 ELSE mutex_
    /\ pc' = [pc EXCEPT ![t] = "idle"]
    /\ calls' = [calls EXCEPT ![t] = @ + 1]
    /\ local' = [local EXCEPT ![t] = NoLocals]
    /\ UNCHANGED <<sink, fs, clock, rotations>>
    /\ UNCHANGED callvars
    /\ UNCHANGED extvars

NextLog ==
    \/ \E t \in Threads :
          \/ LogEnter(t)
          \/ LogLock(t)
          \/ SinkDecide(t)
          \/ SinkRotate(t)
          \/ SinkAppend(t)
          \/ LogUnlock(t)
    \/ Tick

SpecLog == InitLog /\ [][NextLog]_vars

\* a rotating sink that is constructed and not written to
SinkIdle ==
    /\ sink = RotatingFileSinkBySize(Directories0, MaxLimit, DefaultMaxFiles, 0)
    /\ fs = FileSink(Directories0, 0)
    /\ clock = 0
    /\ last = NoCall
    /\ writes = 0
    /\ faults = 0
    /\ rotations = 0

(***************************************************************************)
(* Threads that call write on the one sink without a mutex in common: each *)
(* holds the shared_ptr that Logger::get_sink returned, or logs through a  *)
(* Logger of its own in which the sink is registered.  No class of         *)
(* sink.hpp has a mutex, so nothing orders the steps of the two calls.     *)
(***************************************************************************)
DirectWrite(t) ==
    /\ pc[t] = "idle"
    /\ calls[t] < CallsPerThread
    /\ pc' = [pc EXCEPT ![t] = "write"]
    /\ UNCHANGED <<sink, fs, clock, rotations, mutex_, calls, local>>
    /\ UNCHANGED callvars
    /\ UNCHANGED extvars

NextRace ==
    \E t \in Threads :
        \/ DirectWrite(t)
        \/ SinkDecide(t)
        \/ SinkRotate(t)
        \/ SinkAppend(t)
        \/ LogUnlock(t)

SpecRace == InitLog /\ [][NextRace]_vars

(***************************************************************************)
(* AsyncLogSink (async_sink.hpp).  strand_ is the queue of handlers posted *)
(* to the sink's strand, which runs them one at a time in the order they   *)
(* were posted: a handler is the lambda of write, which pushes its entry,  *)
(* or a resumption of the coroutine process_loop.  `written` is what       *)
(* do_write has put out, `pushed` the entries in the order they entered    *)
(* message_queue_, `accepted` the calls of write so far.  An entry carries *)
(* the number of the call of write that made it.                           *)
(***************************************************************************)
PushHandler(entry) == [fn |-> "push", entry |-> entry]
LoopHandler        == [fn |-> "process_loop", entry |-> 0]

\* asio::post(strand_, handler)
post(strand, handler) == Append(strand, handler)

\* AsyncLogSink(ioc): running_(true), co_spawn(strand_, process_loop())
AsyncLogSink(level) ==
    [level_         |-> level,
     strand_        |-> post(<<>>, LoopHandler),
     message_queue_ |-> <<>>,
     running_       |-> TRUE,
     written        |-> <<>>,
     pushed         |-> <<>>,
     accepted       |-> 0]

\* AsyncLogSink::write(context)
async_write(a, level) ==
    IF ~should_log(a.level_, level)
      THEN [a EXCEPT !.accepted = @ + 1]
      ELSE [a EXCEPT !.accepted = @ + 1,
                     !.strand_ = post(@, PushHandler(a.accepted + 1))]

\* the lambda of write: message_queue_.push(...)
run_push(a, entry) ==
    [a EXCEPT !.message_queue_ = Append(@, entry),
              !.pushed = Append(@, entry)]

\* faulty variant: the newest entry is taken
pop_newest(queue) ==
    [message |-> queue[Len(queue)], rest |-> SubSeq(queue, 1, Len(queue) - 1)]

\* message_queue_.front(); message_queue_.pop();
pop(queue) == [message |-> Head(queue), rest |-> Tail(queue)]

\* faulty variant: the coroutine returns after one turn instead of posting
\* its resumption
process_loop_returns(a) ==
    IF a.message_queue_ # <<>>
      THEN [a EXCEPT !.message_queue_ = pop(a.message_queue_).rest,
                     !.written = Append(@, pop(a.message_queue_).message)]
      ELSE a

\* one turn of process_loop, from its resumption to its next co_await post
process_loop(a) ==
    IF ~a.running_ THEN a
    ELSE LET served ==
               IF a.message_queue_ # <<>>
                 THEN [a EXCEPT !.message_queue_ = pop(a.message_queue_).rest,
                                !.written =
                                    Append(@, pop(a.message_queue_).message)]
                 ELSE a
         IN  [served EXCEPT !.strand_ = post(@, LoopHandler)]

InitAsync ==
    /\ \E level \in {Debug, Info} : async = AsyncLogSink(level)
    /\ SinkIdle
    /\ LoggerIdle
    /\ sent = <<>>
    /\ logger = NoLogger
    /\ fmt = NoFormat
    /\ cleanup = NoCleanup

\* a producer thread calls write
AsyncWrite ==
    \E level \in {Debug, Info} :
        /\ async.accepted < MaxAsyncWrites
        /\ async' = async_write(async, level)
        /\ UNCHANGED <<sink, fs, clock, last, writes, faults, rotations>>
        /\ UNCHANGED logvars
        /\ UNCHANGED <<sent, logger, fmt, cleanup>>

\* the io_context runs the next handler of the strand
StrandRun ==
    /\ async.strand_ # <<>>
    /\ LET handler == Head(async.strand_)
           taken   == [async EXCEPT !.strand_ = Tail(@)]
       IN  async' = IF handler.fn = "push" THEN run_push(taken, handler.entry)
                    ELSE process_loop(taken)
    /\ UNCHANGED <<sink, fs, clock, last, writes, faults, rotations>>
    /\ UNCHANGED logvars
    /\ UNCHANGED <<sent, logger, fmt, cleanup>>

NextAsync == AsyncWrite \/ StrandRun

SpecAsync == InitAsync /\ [][NextAsync]_vars

(***************************************************************************)
(* Logger with several sinks (log.hpp).  The sink objects are the rotating *)
(* sink modelled above and ConsoleSinks, which write to std::cout and      *)
(* never throw.  Every method takes mutex_ for its whole body, so a call   *)
(* is one step.  Beside the fields sinks_ and min_level_ the record        *)
(* `logger` keeps                                                          *)
(*   added    the sinks given to add_sink since the latest clear_sinks,    *)
(*            in the order of the calls                                    *)
(*   ncalls   the calls made so far                                        *)
(*   call     the latest call: its name, its argument (an index for        *)
(*            get_sink, a level for set_level and log), what it returned,  *)
(*            the sinks whose write it invoked, whether it threw           *)
(***************************************************************************)
TheRotatingSink == [class |-> "RotatingFileSink", id |-> 0]
ConsoleSink(k)  == [class |-> "ConsoleSink", id |-> k]
nullptr         == [class |-> "nullptr", id |-> 0]

SinkObjects == {TheRotatingSink} \cup {ConsoleSink(k) : k \in 1..(MaxSinks - 1)}

LoggerCall(op, arg, ret, written, thrown) ==
    [op |-> op, arg |-> arg, ret |-> ret, written |-> written,
     thrown |-> thrown]

\* Logger() : min_level_(Level::Debug)
Logger ==
    [sinks_ |-> <<>>, min_level_ |-> min_level_, added |-> <<>>, ncalls |-> 0,
     call |-> LoggerCall("none", 0, nullptr, <<>>, FALSE)]

\* faulty variant: the size after the push is returned
add_sink_returns_size(sinks, s) ==
    [sinks_ |-> Append(sinks, s), ret |-> Len(Append(sinks, s))]

\* sinks_.push_back(sink); return sinks_.size() - 1;
add_sink(sinks, s) ==
    [sinks_ |-> Append(sinks, s), ret |-> Len(Append(sinks, s)) - 1]

\* sinks_.clear()
clear_sinks(sinks) == <<>>

\* if (index < sinks_.size()) return sinks_[index]; return nullptr;
get_sink(sinks, index) ==
    IF index < Len(sinks) THEN sinks[index + 1] ELSE nullptr

(***************************************************************************)
(* The loop of Logger::log: for (auto& sink : sinks_) { sink->write(       *)
(* context); sink->flush(); }.  There is no try block: an exception of     *)
(* write leaves the loop and log.  The outcomes are [sink, fs, clock,      *)
(* written, status, rotate]: the rotating sink and its directory after the *)
(* loop, the sinks whose write was invoked, and how the write of the       *)
(* rotating sink ended ("none" when it was not invoked).                   *)
(***************************************************************************)
RECURSIVE fan_out(_, _, _, _, _, _, _)
fan_out(sinks, s, f, now, context, delay, fault) ==
    IF sinks = <<>>
      THEN { [sink |-> s, fs |-> f, clock |-> now, written |-> <<>>,
              status |-> "none", rotate |-> FALSE] }
    ELSE IF Head(sinks) # TheRotatingSink
      THEN { [r EXCEPT !.written = <<Head(sinks)>> \o @]
             : r \in fan_out(Tail(sinks), s, f, now, context, delay, fault) }
    ELSE UNION {
           IF o.status = "threw"
             THEN { [sink |-> o.sink, fs |-> o.fs, clock |-> o.clock,
                     written |-> <<Head(sinks)>>,
                     status |-> o.status, rotate |-> o.rotate] }
             ELSE { [r EXCEPT !.written = <<Head(sinks)>> \o @,
                              !.status = o.status, !.rotate = o.rotate]
                    : r \in fan_out(Tail(sinks), o.sink, o.fs, o.clock,
                                    context, delay, fault) }
           : o \in write(s, f, context, now, delay, fault) }

InitLogger ==
    /\ \/ sink = set_formatter(
                     RotatingFileSinkBySize(Directories0, MaxLimit,
                                            DefaultMaxFiles, 0),
                     "PatternFormatter")
       \/ sink = set_formatter(
                     RotatingFileSinkByTime(Directories0, "Hourly",
                                            DefaultMaxFiles, 0),
                     "PatternFormatter")
    /\ fs = FileSink(Directories0, 0)
    /\ clock = 0
    /\ last = NoCall
    /\ writes = 0
    /\ faults = 0
    /\ rotations = 0
    /\ LoggerIdle
    /\ sent = <<>>
    /\ logger = Logger
    /\ async = NoAsync
    /\ fmt = NoFormat
    /\ cleanup = NoCleanup

LoggerFrame ==
    /\ UNCHANGED <<sink, fs, clock, last, writes, faults, rotations>>
    /\ UNCHANGED logvars
    /\ UNCHANGED <<sent, async, fmt, cleanup>>

AddSink ==
    \E s \in SinkObjects :
        /\ logger.ncalls < MaxLoggerCalls
        /\ \A i \in 1..Len(logger.sinks_) : logger.sinks_[i] # s
        /\ LET r == add_sink(logger.sinks_, s)
           IN  logger' = [logger EXCEPT
                   !.sinks_ = r.sinks_,
                   !.added  = Append(@, s),
                   !.ncalls = @ + 1,
                   !.call   = LoggerCall("add_sink", 0, r.ret, <<>>, FALSE)]
        /\ LoggerFrame

ClearSinks ==
    /\ logger.ncalls < MaxLoggerCalls
    /\ logger' = [logger EXCEPT
            !.sinks_ = clear_sinks(@),
            !.added  = <<>>,
            !.ncalls = @ + 1,
            !.call   = LoggerCall("clear_sinks", 0, nullptr, <<>>, FALSE)]
    /\ LoggerFrame

GetSink ==
    \E index \in 0..MaxSinks :
        /\ logger.ncalls < MaxLoggerCalls
        /\ logger' = [logger EXCEPT
                !.ncalls = @ + 1,
                !.call   = LoggerCall("get_sink", index,
                                      get_sink(logger.sinks_, index),
                                      <<>>, FALSE)]
        /\ LoggerFrame

\* Logger::set_level
LoggerSetLevel ==
    \E level \in {Debug, Warning} :
        /\ logger.ncalls < MaxLoggerCalls
        /\ level # logger.min_level_
        /\ logger' = [logger EXCEPT
                !.min_level_ = level,
                !.ncalls = @ + 1,
                !.call   = LoggerCall("set_level", level, nullptr, <<>>, FALSE)]
        /\ LoggerFrame

\* Logger::log
Log ==
    \E context \in Messages, delay \in 0..MaxIODelay, fault \in Faults :
        /\ logger.ncalls < MaxLoggerCalls
        /\ IF ~should_log(logger.min_level_, context.level)
             THEN /\ delay = 0 /\ fault = "none"
                  /\ logger' = [logger EXCEPT
                          !.ncalls = @ + 1,
                          !.call   = LoggerCall("log", context.level, nullptr,
                                                <<>>, FALSE)]
                  /\ UNCHANGED <<sink, fs, clock, last, writes, faults,
                                 rotations>>
             ELSE \E o \in fan_out(logger.sinks_, sink, fs, clock, context,
                                   delay, fault) :
                  /\ o.clock <= MaxClock
                  /\ fault # "none" => o.status = "threw" /\ faults < MaxFaults
                  /\ delay > 0 => o.rotate
                  /\ logger' = [logger EXCEPT
                          !.ncalls = @ + 1,
                          !.call   = LoggerCall("log", context.level, nullptr,
                                                o.written,
                                                o.status = "threw")]
                  /\ sink' = o.sink
                  /\ fs' = o.fs
                  /\ clock' = o.clock
                  /\ last' = IF o.status = "none" THEN last
                             ELSE [status |-> o.status,
                                   size   |-> format(sink.formatter_,
                                                     context).size,
                                   ansi   |-> format(sink.formatter_,
                                                     context).ansi,
                                   rotate |-> o.rotate]
                  /\ writes' = IF o.status = "none" THEN writes
                               ELSE writes + 1
                  /\ faults' = IF o.status = "threw" THEN faults + 1
                               ELSE faults
                  /\ rotations' = IF o.rotate /\ o.status = "ok"
                                    THEN rotations + 1
                                  ELSE rotations
        /\ UNCHANGED logvars
        /\ UNCHANGED <<sent, async, fmt, cleanup>>

NextLogger ==
    \/ AddSink
    \/ ClearSinks
    \/ GetSink
    \/ LoggerSetLevel
    \/ Log
    \/ SetLevel
    \/ Tick

SpecLogger == InitLogger /\ [][NextLogger]_vars

(***************************************************************************)
(* PatternFormatter::format (formatter.hpp), character by character.  A    *)
(* string is a sequence of one-character strings; positions count from 0   *)
(* as in std::string, npos is "not found".  The context carries the fields *)
(* the placeholders stand for.                                             *)
(***************************************************************************)
npos == -1

\* str.find(ch, pos)
find(str, ch, pos) ==
    LET hits == { i \in pos..(Len(str) - 1) : str[i + 1] = ch }
    IN  IF hits = {} THEN npos
        ELSE CHOOSE i \in hits : \A j \in hits : i <= j

\* str.replace(pos, n, replacement)
replace(str, pos, n, replacement) ==
    SubSeq(str, 1, pos) \o replacement \o SubSeq(str, pos + n + 1, Len(str))

\* get_level_string
get_level_string(level) ==
    CASE level = Debug   -> <<"D", "E", "B", "U", "G">>
      [] level = Info    -> <<"I", "N", "F", "O">>
      [] level = Warning -> <<"W", "A", "R", "N">>
      [] level = Error   -> <<"E", "R", "R", "O", "R">>
      [] level = Fatal   -> <<"F", "A", "T", "A", "L">>
      [] OTHER           -> <<"U", "N", "K", "N", "O", "W", "N">>

\* the cases of the switch that set `replacement`
Specifiers == {"t", "l", "f", "n", "d", "m", "%"}

replacement_for(specifier, context) ==
    CASE specifier = "t" -> context.time_str
      [] specifier = "l" -> get_level_string(context.level)
      [] specifier = "f" -> context.file_name
      [] specifier = "n" -> context.line
      [] specifier = "d" -> context.thread_id
      [] specifier = "m" -> context.message
      [] specifier = "%" -> <<"%">>

\* faulty variant: the scan resumes where the replacement begins
resume_at_replacement(pos, replacement) == pos

\* pos += replacement.length()
resume_after(pos, replacement) == pos + Len(replacement)

\* the while loop, entered with `result` and `pos`
RECURSIVE format_loop(_, _, _)
format_loop(result, pos, context) ==
    LET at == find(result, "%", pos)
    IN  IF at = npos THEN result
        ELSE IF at + 1 >= Len(result) THEN result
        ELSE LET specifier == result[at + 2]
             IN  IF specifier \in Specifiers
                   THEN LET replacement == replacement_for(specifier, context)
                        IN  format_loop(replace(result, at, 2, replacement),
                                        resume_after(at, replacement),
                                        context)
                   ELSE format_loop(result, at + 1, context)

pattern_format(pattern_, context) ==
    format_loop(pattern_, 0, context) \o <<"\n">>

SeqsUpTo(chars, n) == UNION { [1..k -> chars] : k \in 0..n }

PatternChars == {"%", "m", "l", "x"}
TextChars    == {"%", "l", "a"}

LogContext(message) ==
    [level     |-> Info,
     time_str  |-> <<"0", "0", ":", "0", "0">>,
     file_name |-> <<"a", ".", "c">>,
     line      |-> <<"7">>,
     thread_id |-> <<"1">>,
     message   |-> message]

InitFormat ==
    /\ \E pattern \in SeqsUpTo(PatternChars, MaxPatternLen),
          message \in SeqsUpTo(TextChars, MaxTextLen) :
          fmt = [pattern_ |-> pattern, context |-> LogContext(message),
                 result |-> <<>>, done |-> FALSE]
    /\ SinkIdle
    /\ LoggerIdle
    /\ sent = <<>>
    /\ logger = NoLogger
    /\ async = NoAsync
    /\ cleanup = NoCleanup

Format ==
    /\ ~fmt.done
    /\ fmt' = [fmt EXCEPT !.result = pattern_format(fmt.pattern_, fmt.context),
                          !.done = TRUE]
    /\ UNCHANGED <<sink, fs, clock, last, writes, faults, rotations>>
    /\ UNCHANGED logvars
    /\ UNCHANGED <<sent, logger, async, cleanup>>

NextFormat == Format

SpecFormat == InitFormat /\ [][NextFormat]_vars

(***************************************************************************)
(* A size-based sink used as its constructor leaves it: formatter_ is the  *)
(* DefaultFormatter that FileSink's constructor installs.                  *)
(***************************************************************************)
InitColour ==
    \E max_size \in MaxLimit..(MaxLimit + ColourBytes),
       max_files \in 1..MaxFiles :
        /\ sink = RotatingFileSinkBySize(Directories0, max_size, max_files, 0)
        /\ fs = FileSink(Directories0, 0)
        /\ clock = 0
        /\ last = NoCall
        /\ writes = 0
        /\ faults = 0
        /\ rotations = 0
        /\ LoggerIdle
        /\ OthersIdle

SpecColour == InitColour /\ [][Next]_vars

(***************************************************************************)
(* A size-based sink constructed with the default max_files on a file that *)
(* does not exist yet, with a tally of what its callers wrote: `sent`      *)
(* gets, for every call of write that passed the level filter, the size of *)
(* the formatted message and how the call ended.                           *)
(***************************************************************************)
InitSize ==
    \E max_size \in (MaxLimit - 1)..MaxLimit :
        /\ sink = set_formatter(
                      RotatingFileSinkBySize(Directories0, max_size,
                                             DefaultMaxFiles, 0),
                      "PatternFormatter")
        /\ fs = FileSink(Directories0, 0)
        /\ clock = 0
        /\ last = NoCall
        /\ writes = 0
        /\ faults = 0
        /\ rotations = 0
        /\ LoggerIdle
        /\ OthersIdle

WriteCounted ==
    \E context \in Messages, delay \in 0..MaxIODelay, fault \in Faults :
        /\ writes < MaxSizeWrites
        /\ WriteCall(context, delay, fault)
        /\ sent' = IF last'.status = "filtered" THEN sent
                   ELSE Append(sent, [size |-> last'.size,
                                      status |-> last'.status])
        /\ UNCHANGED <<logger, async, fmt, cleanup>>

NextSize == WriteCounted \/ SetLevel

SpecSize == InitSize /\ [][NextSize]_vars

(***************************************************************************)
(* Definitions the properties share.                                       *)
(***************************************************************************)
ActiveSize == IF exists(fs, Base) THEN file_size(fs, Base) ELSE 0

\* a step that is a call of write which passed the sink's level filter
WriteStep == writes' = writes + 1 /\ last'.status # "filtered"

\* a step that is a call of write which returned after its append
WriteReturned == WriteStep /\ last'.status = "ok"

Backup1 == generate_rotated_filename("Size", 0)

\* the first instant after t at which an hour (a day) begins
Period(strategy) == IF strategy = "Daily" THEN TicksPerDay ELSE TicksPerHour

NextBoundary(strategy, t) ==
    CHOOSE b \in (t + 1)..(t + Period(strategy)) : b % Period(strategy) = 0

(***************************************************************************)
(* C1.  A write to a size-based sink that passes the level filter calls    *)
(* rotate_files exactly when current_size_ plus the length of the          *)
(* formatted message exceeds max_size_; and when it has rotated and        *)
(* returned, the active file holds that message and nothing else.          *)
(***************************************************************************)
C1_RotateIffWouldExceed ==
    [][ (WriteStep /\ sink.strategy_ = "Size") =>
          /\ last'.rotate <=> (sink.current_size_ + last'.size > sink.max_size_)
          /\ (last'.rotate /\ last'.status = "ok") =>
                /\ exists(fs', Base)
                /\ fs'[Base].content = <<Chunk(last'.size, 0)>>
      ]_vars

C1_Witness ==
    /\ sink.strategy_ = "Size"
    /\ last.status = "ok" /\ last.rotate
    /\ ActiveContent(fs) = <<Chunk(last.size, 0)>>
    /\ exists(fs, Backup1)
    /\ Len(fs[Backup1].content) >= 2

(***************************************************************************)
(* C2.  After every call of write that did not throw, current_size_ is     *)
(* the number of bytes of the file at base_path.                           *)
(***************************************************************************)
C2_SizeIsExact == last.status # "threw" => sink.current_size_ = ActiveSize

(***************************************************************************)
(* C3.  After a write to a size-based sink has returned, the active file   *)
(* holds at most max_size_ bytes, or it consists of one written message    *)
(* that is itself longer than max_size_.                                   *)
(***************************************************************************)
C3_ActiveFileWithinLimit ==
    (sink.strategy_ = "Size" /\ last.status = "ok") =>
        \/ ActiveSize <= sink.max_size_
        \/ /\ Len(ActiveContent(fs)) = 1
           /\ ActiveContent(fs)[1].src = "write"
           /\ ActiveContent(fs)[1].size > sink.max_size_

C3_Witness ==
    /\ sink.strategy_ = "Size" /\ last.status = "ok"
    /\ ActiveSize > sink.max_size_
    /\ rotations >= 1
    /\ exists(fs, Backup1)
    /\ fs[Backup1].content = <<OldBytes(MaxLimit + 1)>>

(***************************************************************************)
(* C4.  Once a rotation has completed, the files of the directory whose    *)
(* name starts with the stem, the active file excluded, number at most     *)
(* max_files_ (max_files_ >= 1).                                           *)
(***************************************************************************)
StemFiles == { n \in DOMAIN fs : starts_with_stem(n) /\ n # Base }

C4_RetentionBound ==
    (sink.max_files_ >= 1 /\ rotations >= 1) =>
        Cardinality(StemFiles) <= sink.max_files_

C4_Witness ==
    /\ rotations >= 3
    /\ sink.max_files_ = 2
    /\ Cardinality(StemFiles) = 1
    /\ OtherFile(1) \notin DOMAIN fs

(***************************************************************************)
(* C5.  Size-based rotation gives successive backups distinct names: no    *)
(* step replaces the content of a numbered backup that exists already.     *)
(***************************************************************************)
C5_BackupsNeverOverwritten ==
    [][ WriteReturned =>
          \A n \in DOMAIN fs :
              (n.kind = "num" /\ n \in DOMAIN fs') => fs'[n] = fs[n] ]_vars

Midnight(k) == k * TicksPerDay

C10_ReturnedWriteIsOnDisk ==
    [][ WriteReturned =>
          /\ exists(fs', Base)
          /\ \/ fs'[Base].content =
                    Append(ActiveContent(fs), Chunk(last'.size, 0))
             \/ fs'[Base].content = <<Chunk(last'.size, 0)>>
      ]_vars

(***************************************************************************)
(* C6.  When every thread's log calls have returned, the bytes of the      *)
(* active file and of all backups together are those of all NThreads *     *)
(* CallsPerThread messages.                                                *)
(***************************************************************************)
AllReturned == \A t \in Threads : calls[t] = CallsPerThread /\ pc[t] = "idle"

RECURSIVE SumFiles(_, _)
SumFiles(f, names) ==
    IF names = {} THEN 0
    ELSE LET n == CHOOSE x \in names : TRUE
         IN  file_size(f, n) + SumFiles(f, names \ {n})

LogFiles == { n \in DOMAIN fs : n.kind \in {"base", "num", "ts"} }

C6_NoBytesLost ==
    AllReturned =>
        SumFiles(fs, LogFiles) = NThreads * CallsPerThread * format(sink.formatter_, LogMessage).size

(***************************************************************************)
(* C7.  At most one thread at a time is inside the fan-out of Logger::log  *)
(* (between taking mutex_ and releasing it), hence inside the sink's       *)
(* write, and at most one rotation is in progress.                         *)
(***************************************************************************)
InFanOut(t) == pc[t] \in {"write", "rotate", "append", "flush"}

C7_PipelinesNeverOverlap ==
    /\ Cardinality({ t \in Threads : InFanOut(t) }) <= 1
    /\ \A t \in Threads : InFanOut(t) => mutex_ = t

C7_Witness ==
    /\ \E t \in Threads : pc[t] = "rotate" /\ rotations >= 1
    /\ \E u \in Threads : pc[u] = "lock"

(***************************************************************************)
(* C11.  A call of write that passes the level filter and whose formatted  *)
(* message does not reach the file at base_path leaves current_size_ as it *)
(* was and ends with an exception.                                         *)
(***************************************************************************)
Persisted(before, after, formatted) ==
    /\ exists(after, Base)
    /\ \/ after[Base].content = Append(ActiveContent(before), formatted)
       \/ after[Base].content = <<formatted>>

C11_SizeCountsPersistedBytes ==
    [][ (WriteStep /\ ~Persisted(fs, fs', Chunk(last'.size, 0))) =>
          /\ sink'.current_size_ = sink.current_size_
          /\ last'.status = "threw"
      ]_vars

(***************************************************************************)
(* C12.  No file of the directory holds bytes of a colour escape sequence, *)
(* and a size-based sink decides on rotation with, and adds to             *)
(* current_size_, the length the formatted message has once those          *)
(* sequences are stripped.                                                 *)
(***************************************************************************)
NoColourOnDisk ==
    \A n \in DOMAIN fs :
        \A i \in 1..Len(fs[n].content) : fs[n].content[i].ansi = 0

StrippedSize(call) == strip_color_codes(Chunk(call.size, call.ansi)).size

C12_FilesFreeOfColourCodes ==
    /\ []NoColourOnDisk
    /\ [][ (WriteReturned /\ sink.strategy_ = "Size") =>
             /\ last'.rotate <=>
                    (sink.current_size_ + StrippedSize(last') > sink.max_size_)
             /\ sink'.current_size_ =
                    (IF last'.rotate THEN 0 ELSE sink.current_size_)
                    + StrippedSize(last')
         ]_vars

(***************************************************************************)
(* C13.  In every state, a call of write with a record whose level is      *)
(* below the sink's level_ can only return with the sink, the directory    *)
(* and the clock as they are; and a call of Logger::log leaves the         *)
(* rotating sink and its directory alone when the level is below the       *)
(* sink's level_, and invokes write on no sink when the level is below the *)
(* logger's min_level_.                                                    *)
(***************************************************************************)
LoggerStep(op) ==
    logger'.ncalls = logger.ncalls + 1 /\ logger'.call.op = op

WriteHasNoEffect(context, delay, fault) ==
    write(sink, fs, context, clock, delay, fault) =
        { [sink |-> sink, fs |-> fs, clock |-> clock,
           status |-> "filtered", rotate |-> FALSE] }

C13_BelowLevelHasNoEffect ==
    /\ [](\A context \in Messages, delay \in 0..MaxIODelay, fault \in Faults :
            context.level < sink.level_ =>
                WriteHasNoEffect(context, delay, fault))
    /\ [][ LoggerStep("log") =>
             /\ logger'.call.arg < sink.level_ =>
                    UNCHANGED <<sink, fs, clock, rotations>>
             /\ logger'.call.arg < logger.min_level_ =>
                    /\ logger'.call.written = <<>>
                    /\ UNCHANGED <<sink, fs, clock, rotations>>
         ]_vars

C13_Witness ==
    /\ logger.call.op = "log"
    /\ logger.call.arg = Info
    /\ sink.level_ = Warning
    /\ logger.call.written = <<TheRotatingSink, ConsoleSink(1)>>
    /\ last.status = "filtered"
    /\ sink.strategy_ = "Hourly"
    /\ clock >= sink.next_rotation_time_
    /\ rotations = 0

(***************************************************************************)
(* C14.  As stated: the rotations completed are at least floor(N / M),     *)
(* N the bytes of the writes that returned, M = max_size_.                 *)
(***************************************************************************)
RECURSIVE BytesReturned(_)
BytesReturned(calls_) ==
    IF calls_ = <<>> THEN 0
    ELSE (IF Head(calls_).status = "ok" THEN Head(calls_).size ELSE 0)
         + BytesReturned(Tail(calls_))

C14_FloorRotations ==
    rotations >= BytesReturned(sent) \div sink.max_size_

(***************************************************************************)
(* C14, amended.  When no message is longer than M, the rotations          *)
(* completed are at least ceil(N / M) - 1: every file the sink has filled  *)
(* holds at most M bytes.                                                  *)
(***************************************************************************)
NoneOverLimit ==
    \A i \in 1..Len(sent) : sent[i].size <= sink.max_size_

C14_CeilRotations ==
    NoneOverLimit =>
        rotations + 1 >=
            (BytesReturned(sent) + sink.max_size_ - 1) \div sink.max_size_

C14_Witness ==
    /\ NoneOverLimit
    /\ faults = 0
    /\ rotations = 1
    /\ BytesReturned(sent) = 2 * sink.max_size_
    /\ sink.current_size_ = sink.max_size_

(***************************************************************************)
(* C15.  On a sink constructed with the default max_files on an empty      *)
(* file, after k writes of messages of one size s <= M that all returned:  *)
(* while k <= floor(M / s) nothing has rotated; for floor(M / s) < k <=    *)
(* 2 * floor(M / s) exactly one rotation has happened, the one backup is   *)
(* base.1 and holds the first floor(M / s) messages, the active file holds *)
(* the others and current_size_ is their byte count.                       *)
(***************************************************************************)
AllOfSize(s) ==
    \A i \in 1..Len(sent) : sent[i].size = s /\ sent[i].status = "ok"

Copies(n, s) == [i \in 1..n |-> Chunk(s, 0)]

InSinkWrite(t) == pc[t] \in {"write", "rotate", "append"}

C16_SinkSerialisesItself ==
    Cardinality({ t \in Threads : InSinkWrite(t) }) <= 1

(***************************************************************************)
(* C17.  do_write is handed the entries of message_queue_ in the order in  *)
(* which they were pushed, which is the order of the calls of write that   *)
(* made them, each entry once: what is written is a prefix of what was     *)
(* pushed, and the queue holds the rest.                                   *)
(***************************************************************************)
Increasing(seq) == \A i, j \in 1..Len(seq) : i < j => seq[i] < seq[j]

C17_AsyncFifo ==
    /\ async.written \o async.message_queue_ = async.pushed
    /\ Increasing(async.pushed)

C17_Witness ==
    /\ Len(async.written) >= 1
    /\ Len(async.message_queue_) >= 2
    /\ Len(async.strand_) >= 2

(***************************************************************************)
(* C18.  A call of Logger::log whose level passes min_level_ invokes write *)
(* on every registered sink, once each, in the order in which the sinks    *)
(* were added.                                                             *)
(***************************************************************************)
C18_EverySinkServed ==
    [][ (LoggerStep("log") /\ logger'.call.arg >= logger.min_level_) =>
            logger'.call.written = logger.added
      ]_vars

(***************************************************************************)
(* C19.  add_sink returns the number of sinks added before it since the    *)
(* latest clear_sinks (0, 1, 2, ...); get_sink(i) returns the sink that    *)
(* the i-th of these calls added, and null when there is none.             *)
(***************************************************************************)
C19_SinkIndices ==
    [][ /\ LoggerStep("add_sink") =>
              logger'.call.ret = Len(logger.added)
        /\ LoggerStep("get_sink") =>
              logger'.call.ret =
                  IF logger'.call.arg < Len(logger.added)
                    THEN logger.added[logger'.call.arg + 1]
                    ELSE nullptr
      ]_vars

C19_Witness ==
    /\ logger.call.op = "get_sink"
    /\ logger.call.arg = 2
    /\ logger.call.ret = TheRotatingSink
    /\ logger.added = <<ConsoleSink(2), ConsoleSink(1), TheRotatingSink>>

(***************************************************************************)
(* C20.  The line PatternFormatter::format returns is the pattern read     *)
(* once from left to right: "%" followed by a placeholder letter gives the *)
(* text of the placeholder, "%%" gives one "%", every other character      *)
(* gives itself; neither the "%" that "%%" gave nor the text of a          *)
(* placeholder is read again.  "\n" ends the line.                         *)
(***************************************************************************)
RECURSIVE ReadOnce(_, _)
ReadOnce(pattern, context) ==
    IF pattern = <<>> THEN <<>>
    ELSE IF Head(pattern) = "%" /\ Len(pattern) >= 2
            /\ pattern[2] \in {"t", "l", "f", "n", "d", "m"}
      THEN (CASE pattern[2] = "t" -> context.time_str
              [] pattern[2] = "l" -> get_level_string(context.level)
              [] pattern[2] = "f" -> context.file_name
              [] pattern[2] = "n" -> context.line
              [] pattern[2] = "d" -> context.thread_id
              [] pattern[2] = "m" -> context.message)
           \o ReadOnce(SubSeq(pattern, 3, Len(pattern)), context)
    ELSE IF Head(pattern) = "%" /\ Len(pattern) >= 2 /\ pattern[2] = "%"
      THEN <<"%">> \o ReadOnce(SubSeq(pattern, 3, Len(pattern)), context)
    ELSE <<Head(pattern)>> \o ReadOnce(Tail(pattern), context)

C20_PercentEscapeAndNoRescan ==
    fmt.done =>
        /\ fmt.result = ReadOnce(fmt.pattern_, fmt.context) \o <<"\n">>
        /\ fmt.pattern_ = <<"%", "%", "m">> => fmt.result = <<"%", "m", "\n">>

C20_Witness ==
    /\ fmt.done
    /\ fmt.pattern_ = <<"%", "%", "%", "m">>
    /\ fmt.context.message = <<"%", "l">>
    /\ fmt.result = <<"%", "%", "l", "\n">>

(***************************************************************************)
(* C21.  A write that rotates and returns leaves the content the active    *)
(* file had before the call in the file named by                           *)
(* generate_rotated_filename, leaves in the active file exactly the        *)
(* formatted message that triggered the rotation, and leaves current_size_ *)
(* equal to the size of that message.                                      *)
(***************************************************************************)
\* the name rotate_files gives to the backup of a rotation entered now
RotatedName == generate_rotated_filename(sink.strategy_, clock)

\* a step that is a call of write which rotated and returned
RotationReturned == WriteReturned /\ last'.rotate

C21_RotationMovesContent ==
    [][ RotationReturned =>
          /\ exists(fs, Base) =>
                /\ exists(fs', RotatedName)
                /\ fs'[RotatedName].content = fs[Base].content
          /\ ActiveContent(fs') = <<Chunk(last'.size, 0)>>
          /\ sink'.current_size_ = last'.size ]_vars

(***************************************************************************)
(* C25.  For every max_files >= 1, when a write that rotated returns, the  *)
(* file the previous active content was renamed to still exists and holds  *)
(* that content.                                                           *)
(***************************************************************************)
C25_BackupSurvives ==
    [][ (RotationReturned /\ sink.max_files_ >= 1 /\ exists(fs, Base)) =>
          /\ RotatedName \in DOMAIN fs'
          /\ fs'[RotatedName].content = ActiveContent(fs) ]_vars

(***************************************************************************)
(* C24.  No step changes strategy_, max_size_ or max_files_; a Size sink   *)
(* never changes next_rotation_time_ and rotates exactly when the pending  *)
(* message would exceed max_size_, whatever the clock shows; a Daily or    *)
(* Hourly sink rotates exactly when the clock has reached                  *)
(* next_rotation_time_, whatever the sizes of the file and of the message. *)
(***************************************************************************)
C24_StrategyIsOnlyTrigger ==
    [][ /\ sink'.strategy_ = sink.strategy_
        /\ sink'.max_size_ = sink.max_size_
        /\ sink'.max_files_ = sink.max_files_
        /\ sink.strategy_ = "Size" =>
              sink'.next_rotation_time_ = sink.next_rotation_time_
        /\ (WriteStep /\ sink.strategy_ = "Size") =>
              (last'.rotate <=> sink.current_size_ + last'.size > sink.max_size_)
        /\ (WriteStep /\ sink.strategy_ # "Size") =>
              (last'.rotate <=> clock >= sink.next_rotation_time_) ]_vars

\* an Hourly sink has appended, without rotating, to a file that is already
\* larger than any max_size
C24_Witness ==
    /\ sink.strategy_ = "Hourly"
    /\ last.status = "ok"
    /\ ~last.rotate
    /\ last.size > 0
    /\ sink.current_size_ - last.size > MaxLimit

(***************************************************************************)
(* C26.  A file of the directory whose name begins with the stem but that  *)
(* no rotation of this sink produced is never deleted or altered by a call *)
(* of write.                                                               *)
(***************************************************************************)
C26_ForeignFilesUntouched ==
    [][ \A n \in DOMAIN fs :
          n.kind = "other" => (n \in DOMAIN fs' /\ fs'[n] = fs[n]) ]_vars

(***************************************************************************)
(* cleanup_old_files followed step by step.  rotate_files calls it when    *)
(* the base file has been renamed away (or was missing), so the directory  *)
(* holds no base file; max_files_ is any value the constructor accepts,    *)
(* 0 included.                                                             *)
(***************************************************************************)
CleanupFiles ==
    { generate_rotated_filename("Size", 0),
      generate_rotated_filename("Hourly", 0),
      OtherFile(1) }

CleanupDirectories ==
    UNION { { [n \in present \cup {Unrelated} |->
                 [content |-> <<OldBytes(1)>>,
                  mtime   |-> IF n \in present THEN m[n] ELSE 0]]
              : m \in [present -> 0..MaxMtime] }
            : present \in SUBSET CleanupFiles }

InitCleanup ==
    /\ \E max_files \in 0..MaxFiles :
          sink = [RotatingFileSinkBySize(Directories0, MaxLimit, max_files, 0)
                    EXCEPT !.file_ = stream_close(@)]
    /\ fs \in CleanupDirectories
    /\ cleanup = [NoCleanup EXCEPT !.at = "collect"]
    /\ clock = 0
    /\ last = NoCall
    /\ writes = 0
    /\ faults = 0
    /\ rotations = 0
    /\ LoggerIdle
    /\ sent = <<>>
    /\ logger = NoLogger
    /\ async = NoAsync
    /\ fmt = NoFormat

CleanupFrame ==
    /\ UNCHANGED <<sink, clock, last, writes, faults, rotations>>
    /\ UNCHANGED logvars
    /\ UNCHANGED <<sent, logger, async, fmt>>

\* the directory is read and the candidates are sorted
CleanupCollect ==
    /\ cleanup.at = "collect"
    /\ \E order \in sort_by_last_write_time(fs, log_files(fs)) :
          cleanup' = [cleanup EXCEPT !.log_files = order,
                                     !.collected = Len(order),
                                     !.at = "loop"]
    /\ UNCHANGED fs
    /\ CleanupFrame

\* one turn of the deletion loop on a vector that has a last element
CleanupTurn ==
    /\ cleanup.at = "loop"
    /\ loop_condition(cleanup.log_files, sink.max_files_)
    /\ cleanup.log_files # <<>>
    /\ LET b == loop_body(fs, cleanup.log_files)
           back == cleanup.log_files[Len(cleanup.log_files)]
       IN  /\ fs' = b.fs
           /\ cleanup' = [cleanup EXCEPT
                            !.log_files = b.files,
                            !.removed = Append(@, [name  |-> back,
                                                   mtime |-> fs[back].mtime]),
                            !.turns = @ + 1]
    /\ CleanupFrame

\* one turn of the deletion loop on the empty vector: back() and pop_back()
\* are undefined there.  The call is killed, or it goes on with a vector
\* whose size() is still not below max_files_; the turns beyond the last
\* candidate are followed up to MaxExtraTurns.
CleanupTurnOnEmpty ==
    /\ cleanup.at = "loop"
    /\ loop_condition(cleanup.log_files, sink.max_files_)
    /\ cleanup.log_files = <<>>
    /\ cleanup.turns < cleanup.collected + MaxExtraTurns
    /\ \E outcome \in {"loop", "crashed"} :
          cleanup' = [cleanup EXCEPT !.at = outcome, !.turns = @ + 1]
    /\ UNCHANGED fs
    /\ CleanupFrame

\* the loop condition is false: the function returns
CleanupReturn ==
    /\ cleanup.at = "loop"
    /\ ~loop_condition(cleanup.log_files, sink.max_files_)
    /\ cleanup' = [cleanup EXCEPT !.at = "returned"]
    /\ UNCHANGED fs
    /\ CleanupFrame

NextCleanup == CleanupCollect \/ CleanupTurn \/ CleanupTurnOnEmpty \/ CleanupReturn

SpecCleanup == InitCleanup /\ [][NextCleanup]_vars

(***************************************************************************)
(* C22.  Every file cleanup_old_files has deleted was last modified no     *)
(* later than every candidate still in the directory, and nothing is       *)
(* deleted when the candidates collected are fewer than max_files_.        *)
(***************************************************************************)
C22_OldestDeletedFirst ==
    /\ \A i \in DOMAIN cleanup.removed : \A s \in log_files(fs) :
          cleanup.removed[i].mtime <= fs[s].mtime
    /\ cleanup.collected < sink.max_files_ => cleanup.removed = <<>>

\* two candidates were deleted and the one kept is newer than both
C22_Witness ==
    /\ cleanup.at = "returned"
    /\ Len(cleanup.removed) = 2
    /\ \E s \in log_files(fs) : \A i \in DOMAIN cleanup.removed :
          cleanup.removed[i].mtime < fs[s].mtime

(***************************************************************************)
(* C27.  For every max_files_, 0 included, the deletion loop of            *)
(* cleanup_old_files never takes a turn on an empty vector: it runs at     *)
(* most once per candidate collected and the call is never killed.         *)
(***************************************************************************)
C27_LoopBoundedByCandidates ==
    /\ cleanup.at # "crashed"
    /\ cleanup.turns <= cleanup.collected

(***************************************************************************)
(* AsyncLogSink with an io_context that several threads run.  Each thread  *)
(* of Threads is inside io_context::run(): it takes the next handler of    *)
(* the strand when the strand lets it and executes the handler statement   *)
(* by statement.  io[t] is where thread t stands: "idle" (no handler),     *)
(* "push" (in the lambda of write), "loop" (process_loop resumed, at its   *)
(* while), "do_write" (entry popped, inside do_write), "post" (at          *)
(* co_await asio::post).  Producers call write at any moment.              *)
(***************************************************************************)
IoIdle == [at |-> "idle", entry |-> 0]

\* faulty variant: the executor is the io_context itself, not a strand
strand_never_busy(a) == TRUE

\* asio::strand: a handler of the strand is invoked only when no other
\* handler of the same strand is executing
strand_free(a) == \A t \in Threads : a.io[t].at = "idle"

InitStrand ==
    /\ \E level \in {Debug, Info} :
          async = [io |-> [t \in Threads |-> IoIdle]] @@ AsyncLogSink(level)
    /\ SinkIdle
    /\ LoggerIdle
    /\ sent = <<>>
    /\ logger = NoLogger
    /\ fmt = NoFormat
    /\ cleanup = NoCleanup

StrandFrame ==
    /\ UNCHANGED <<sink, fs, clock, last, writes, faults, rotations>>
    /\ UNCHANGED logvars
    /\ UNCHANGED <<sent, logger, fmt, cleanup>>

\* thread t is handed the next handler of the strand
IoTake(t) ==
    /\ async.io[t].at = "idle"
    /\ async.strand_ # <<>>
    /\ strand_free(async)
    /\ LET handler == Head(async.strand_)
       IN  async' = [async EXCEPT
                       !.strand_ = Tail(@),
                       !.io[t] = IF handler.fn = "push"
                                   THEN [at |-> "push", entry |-> handler.entry]
                                   ELSE [at |-> "loop", entry |-> 0]]
    /\ StrandFrame

\* the lambda of write: message_queue_.push(...)
IoPush(t) ==
    /\ async.io[t].at = "push"
    /\ async' = [run_push(async, async.io[t].entry) EXCEPT !.io[t] = IoIdle]
    /\ StrandFrame

\* process_loop: while (running_), if (!message_queue_.empty()), front(), pop()
IoLoop(t) ==
    /\ async.io[t].at = "loop"
    /\ async' =
         IF ~async.running_ THEN [async EXCEPT !.io[t] = IoIdle]
         ELSE IF async.message_queue_ # <<>>
           THEN [async EXCEPT
                   !.message_queue_ = pop(async.message_queue_).rest,
                   !.io[t] = [at    |-> "do_write",
                              entry |-> pop(async.message_queue_).message]]
           ELSE [async EXCEPT !.io[t] = [at |-> "post", entry |-> 0]]
    /\ StrandFrame

\* co_await do_write(message, level): the output, then co_return
IoDoWrite(t) ==
    /\ async.io[t].at = "do_write"
    /\ async' = [async EXCEPT !.written = Append(@, async.io[t].entry),
                              !.io[t] = [at |-> "post", entry |-> 0]]
    /\ StrandFrame

\* co_await asio::post(strand_, use_awaitable): the coroutine suspends
IoPost(t) ==
    /\ async.io[t].at = "post"
    /\ async' = [async EXCEPT !.strand_ = post(@, LoopHandler),
                              !.io[t] = IoIdle]
    /\ StrandFrame

NextStrand ==
    \/ AsyncWrite
    \/ \E t \in Threads :
          \/ IoTake(t)
          \/ IoPush(t)
          \/ IoLoop(t)
          \/ IoDoWrite(t)
          \/ IoPost(t)

SpecStrand == InitStrand /\ [][NextStrand]_vars

(***************************************************************************)
(* C23.  At no moment are two threads of the io_context inside handlers of *)
(* the sink (so no push overlaps a pop or a do_write and no two do_write   *)
(* overlap), and message_queue_ and the output change only in steps of a   *)
(* thread that is inside a handler of the strand, never in a step of a     *)
(* producer calling write.                                                 *)
(***************************************************************************)
InHandler(t) == async.io[t].at # "idle"

C23_StrandExclusive ==
    [][ /\ \A t1, t2 \in Threads : (InHandler(t1) /\ InHandler(t2)) => t1 = t2
        /\ \A t1, t2 \in Threads : (InHandler(t1)' /\ InHandler(t2)') => t1 = t2
        /\ (\/ async'.message_queue_ # async.message_queue_
            \/ async'.written # async.written)
              => \E t \in Threads : InHandler(t) /\ async'.io[t] # async.io[t]
      ]_vars

\* thread 1 is inside do_write while the lambda of a later write waits at
\* the head of the strand and thread 2 has nothing to run
C23_Witness ==
    /\ async.io[1].at = "do_write"
    /\ async.io[2].at = "idle"
    /\ async.strand_ # <<>>
    /\ Head(async.strand_).fn = "push"

(***************************************************************************)
(* The asynchronous sink under fair scheduling: the io_context keeps being *)
(* run, so a handler waiting at the head of the strand is executed in the  *)
(* end.  The sink is not destroyed (running_ stays true).                  *)
(***************************************************************************)
SpecAsyncFair == SpecAsync /\ WF_vars(StrandRun)

(***************************************************************************)
(* C30.  Every entry whose lambda write has posted to the strand, or that  *)
(* is in message_queue_, is eventually handed to do_write.                 *)
(***************************************************************************)
Posted(e) ==
    \/ \E i \in DOMAIN async.strand_ : async.strand_[i] = PushHandler(e)
    \/ \E i \in DOMAIN async.message_queue_ : async.message_queue_[i] = e

HandedToDoWrite(e) == \E i \in DOMAIN async.written : async.written[i] = e

C30_AcceptedEventuallyWritten ==
    \A e \in 1..MaxAsyncWrites : Posted(e) ~> HandedToDoWrite(e)

\* the entry of the last write has been put out after three earlier ones
\* that were accepted, and nothing is left in the strand but process_loop
C30_Witness ==
    /\ HandedToDoWrite(MaxAsyncWrites)
    /\ Len(async.written) = MaxAsyncWrites
    /\ async.message_queue_ = <<>>
    /\ async.strand_ = <<LoopHandler>>

(***************************************************************************)
(* Logger::log against Logger::set_level.  The threads of Threads call     *)
(* log statement by statement, as in SpecLog, but the level check reads    *)
(* the field min_level_ of the Logger, which another thread sets at any    *)
(* moment the mutex is free.  The Logger holds the rotating sink.          *)
(***************************************************************************)
InitLevel ==
    /\ SinkIdle
    /\ LoggerIdle
    /\ sent = <<>>
    /\ logger = [Logger EXCEPT
                   !.sinks_ = add_sink(@, TheRotatingSink).sinks_,
                   !.added  = <<TheRotatingSink>>]
    /\ async = NoAsync
    /\ fmt = NoFormat
    /\ cleanup = NoCleanup

\* if (!should_log(level)) return;  should_log locks, compares and unlocks
LevelCheck(t) ==
    /\ pc[t] = "idle"
    /\ calls[t] < CallsPerThread
    /\ lock_acquirable(mutex_)
    /\ IF should_log(logger.min_level_, LogMessage.level)
         THEN pc' = [pc EXCEPT ![t] = "lock"] /\ UNCHANGED calls
         ELSE calls' = [calls EXCEPT ![t] = @ + 1] /\ UNCHANGED pc
    /\ UNCHANGED <<sink, fs, clock, rotations, mutex_, local>>
    /\ UNCHANGED callvars
    /\ UNCHANGED extvars

\* set_level(level) of another thread: lock, min_level_ = level, unlock
LevelSet ==
    /\ lock_acquirable(mutex_)
    /\ LoggerSetLevel

NextLevel ==
    \/ \E t \in Threads :
          \/ LevelCheck(t)
          \/ LogLock(t)
          \/ SinkDecide(t)
          \/ SinkRotate(t)
          \/ SinkAppend(t)
          \/ LogUnlock(t)
    \/ LevelSet

SpecLevel == InitLevel /\ [][NextLevel]_vars

(***************************************************************************)
(* C28.  Whenever a log call invokes write on the sink, the level of its   *)
(* record is not below the min_level_ the latest returned set_level left.  *)
(***************************************************************************)
C28_NoRecordBelowLevel ==
    [][ (\E t \in Threads : pc[t] = "write" /\ pc'[t] # "write") =>
            LogMessage.level >= logger.min_level_ ]_vars

(***************************************************************************)
(* detail::default_logger(), reached through the global convenience       *)
(* functions.  The repository has two versions of log.hpp.  In the         *)
(* synchronous one ("flag") the function holds `static Logger logger;      *)
(* static bool initialized = false;` and tests the plain bool, with no     *)
(* lock around the test, add_sink and the assignment.  In the asynchronous *)
(* one ("static") the sink is added by the constructor of the function-    *)
(* local `static DefaultLogger instance`, whose initialisation the         *)
(* language runs once: a thread that finds it under way waits.  The        *)
(* threads of Threads call a convenience function statement by statement;  *)
(* `logger` is the static Logger, with the state of the initialisation     *)
(* (`initialized`: "no", "running", "yes") beside its fields.              *)
(***************************************************************************)
DefaultLoggerVersions == {"flag", "static"}

InitDefault ==
    /\ \E version \in DefaultLoggerVersions :
          logger = [version |-> version, initialized |-> "no"] @@ Logger
    /\ SinkIdle
    /\ LoggerIdle
    /\ sent = <<>>
    /\ async = NoAsync
    /\ fmt = NoFormat
    /\ cleanup = NoCleanup

DefaultFrame ==
    /\ UNCHANGED <<sink, fs, clock, last, writes, faults, rotations>>
    /\ UNCHANGED <<mutex_, local>>
    /\ UNCHANGED <<sent, async, fmt, cleanup>>

\* a thread calls cpp_log::info(...) and enters default_logger()
DefaultCall(t) ==
    /\ pc[t] = "idle"
    /\ calls[t] < CallsPerThread
    /\ pc' = [pc EXCEPT ![t] = "check"]
    /\ UNCHANGED <<logger, calls>>
    /\ DefaultFrame

\* "flag": if (!initialized).  "static": the guard of the local static is
\* taken by the first thread, the others wait until it is released.
DefaultCheck(t) ==
    /\ pc[t] = "check"
    /\ IF logger.version = "flag"
         THEN /\ pc' = [pc EXCEPT ![t] = IF logger.initialized = "yes"
                                           THEN "log" ELSE "add"]
              /\ UNCHANGED logger
         ELSE /\ logger.initialized # "running"
              /\ pc' = [pc EXCEPT ![t] = IF logger.initialized = "yes"
                                           THEN "log" ELSE "add"]
              /\ logger' = [logger EXCEPT !.initialized =
                                 IF @ = "no" THEN "running" ELSE @]
    /\ UNCHANGED calls
    /\ DefaultFrame

\* logger.add_sink(console_sink)
DefaultAddSink(t) ==
    /\ pc[t] = "add"
    /\ lock_acquirable(mutex_)
    /\ LET s == ConsoleSink(Len(logger.sinks_) + 1)
           r == add_sink(logger.sinks_, s)
       IN  logger' = [logger EXCEPT !.sinks_ = r.sinks_,
                                    !.added  = Append(@, s)]
    /\ pc' = [pc EXCEPT ![t] = "set"]
    /\ UNCHANGED calls
    /\ DefaultFrame

\* initialized = true ("flag"); the constructor returns ("static")
DefaultInitialized(t) ==
    /\ pc[t] = "set"
    /\ logger' = [logger EXCEPT !.initialized = "yes"]
    /\ pc' = [pc EXCEPT ![t] = "log"]
    /\ UNCHANGED calls
    /\ DefaultFrame

\* the Logger returned logs the record: write on every sink of sinks_
DefaultLog(t) ==
    /\ pc[t] = "log"
    /\ lock_acquirable(mutex_)
    /\ logger' = [logger EXCEPT
                    !.ncalls = @ + 1,
                    !.call = LoggerCall("log", LogMessage.level, nullptr,
                                        logger.sinks_, FALSE)]
    /\ pc' = [pc EXCEPT ![t] = "idle"]
    /\ calls' = [calls EXCEPT ![t] = @ + 1]
    /\ DefaultFrame

NextDefault ==
    \E t \in Threads :
        \/ DefaultCall(t)
        \/ DefaultCheck(t)
        \/ DefaultAddSink(t)
        \/ DefaultInitialized(t)
        \/ DefaultLog(t)

SpecDefault == InitDefault /\ [][NextDefault]_vars

(***************************************************************************)
(* C29.  The default logger never holds more than one console sink, and    *)
(* every record logged through it is written to exactly one sink.          *)
(***************************************************************************)
C29_InitialisedOnce ==
    /\ Len(logger.sinks_) <= 1
    /\ logger.call.op = "log" => Len(logger.call.written) = 1

(***************************************************************************)
(* AsyncLogSink destroyed while its io_context is still run.  The          *)
(* destructor stores false in running_ and returns; the members (strand_   *)
(* handle, message_queue_, running_, the stream of the derived class) are  *)
(* then gone, while the handlers the sink posted, which captured `this`,   *)
(* stay in the strand.  `destroyed` tells that the destructor has run.  A  *)
(* handler statement that touches a member of a destroyed sink is          *)
(* undefined: it acts as if the memory were intact, or reads running_ as   *)
(* true, or kills the process.                                             *)
(***************************************************************************)
\* ~AsyncLogSink() { running_ = false; }
AsyncLogSink_destructor(a) == [a EXCEPT !.running_ = FALSE, !.destroyed = TRUE]

InitDestroy ==
    /\ \E level \in {Debug, Info} :
          async = [io |-> [t \in Threads |-> IoIdle], destroyed |-> FALSE]
                      @@ AsyncLogSink(level)
    /\ SinkIdle
    /\ LoggerIdle
    /\ sent = <<>>
    /\ logger = NoLogger
    /\ fmt = NoFormat
    /\ cleanup = NoCleanup

\* a producer calls write on the sink while it exists
WriteWhileAlive ==
    /\ ~async.destroyed
    /\ AsyncWrite

\* the owner destroys the sink
Destroy ==
    /\ ~async.destroyed
    /\ async' = AsyncLogSink_destructor(async)
    /\ StrandFrame

\* the statements of a handler that read or write message_queue_, running_
\* or the output stream
TouchesSink(t) == async.io[t].at \in {"push", "loop", "do_write"}

\* the outcomes of such a statement on a destroyed sink other than "as if
\* the memory were intact": the process is killed, or the while of
\* process_loop reads running_ as true
IoUseAfterFree(t) ==
    /\ async.destroyed
    /\ TouchesSink(t)
    /\ \/ async' = [async EXCEPT !.io[t] = [at |-> "crashed", entry |-> 0]]
       \/ /\ async.io[t].at = "loop"
          /\ async' =
               IF async.message_queue_ # <<>>
                 THEN [async EXCEPT
                         !.message_queue_ = pop(async.message_queue_).rest,
                         !.io[t] = [at    |-> "do_write",
                                    entry |-> pop(async.message_queue_).message]]
                 ELSE [async EXCEPT !.io[t] = [at |-> "post", entry |-> 0]]
    /\ StrandFrame

NextDestroy ==
    \/ WriteWhileAlive
    \/ Destroy
    \/ \E t \in Threads :
          \/ IoTake(t)
          \/ IoPush(t)
          \/ IoLoop(t)
          \/ IoDoWrite(t)
          \/ IoPost(t)
          \/ IoUseAfterFree(t)

SpecDestroy == InitDestroy /\ [][NextDestroy]_vars

(***************************************************************************)
(* C31.  Once the destructor of the sink has run, no thread executes a     *)
(* handler statement that reads or writes message_queue_, running_ or the  *)
(* output stream.                                                          *)
(***************************************************************************)
C31_NoHandlerAfterDestruction ==
    [][ async.destroyed =>
          \A t \in Threads : TouchesSink(t) => async'.io[t] = async.io[t]
      ]_vars

=============================================================================
